---- MODULE Spec2Model ----
(***************************************************************************)
(* Node-graph connectivity and traversal of nuke_core_utilities.graph:     *)
(* ConnectionManager (graph/connections.py) and GraphTraversal             *)
(* (graph/traversal.py), over the host's node graph.                       *)
(*                                                                         *)
(* A node is an integer 1..MaxNodes; None is 0.  The host graph is         *)
(* inp[n][i] = the node held by input slot i of n (slots are numbered from *)
(* 0 as in the source).  Node lists are sequences; a Python set is a TLA+  *)
(* set; a dict is a function.                                              *)
(***************************************************************************)
EXTENDS Integers, Sequences, FiniteSets, TLC

VARIABLES inp, last

vars == <<inp, last>>

\* ------------------------------------------------------------------ bounds
MaxNodes == 4
MaxInputs == 2

Nodes == 1..MaxNodes
None == 0

\* ------------------------------------------------------------- host graph
\* node.inputs(): the fixed number of input slots of a node.  Node 1 has no
\* input (a generator), node 2 one, and so on up to MaxInputs (a merge).
inputs(n) == IF n - 1 < MaxInputs THEN n - 1 ELSE MaxInputs

Slots(n) == 0..(inputs(n) - 1)

EmptyGraph == [n \in Nodes |-> [i \in Slots(n) |-> None]]

\* node.input(i): None for a slot the node does not have.
input(g, n, i) == IF i \in Slots(n) THEN g[n][i] ELSE None

\* node.setInput(i, v): the host refuses a slot the node does not have.
setInput(g, n, i, v) ==
    IF i \in Slots(n) THEN [g EXCEPT ![n][i] = v] ELSE g

\* Whether d reads n through at least one of its input slots.
Feeds(g, n, d) == \E i \in Slots(d) : g[d][i] = n

\* node.dependent(): the nodes that read n, each once, as the list the host
\* hands out (in ascending node order).
RECURSIVE dependent_but_self(_, _, _)
\* A dependent list that leaves out a node reading itself.
dependent_but_self(g, n, d) ==
    IF d > MaxNodes THEN <<>>
    ELSE (IF Feeds(g, n, d) /\ d # n THEN <<d>> ELSE <<>>) \o dependent_but_self(g, n, d + 1)

RECURSIVE dependent_from(_, _, _)
dependent_from(g, n, d) ==
    IF d > MaxNodes THEN <<>>
    ELSE (IF Feeds(g, n, d) THEN <<d>> ELSE <<>>) \o dependent_from(g, n, d + 1)

dependent(g, n) == dependent_from(g, n, 1)

\* ------------------------------------------------------ sequence helpers
Range(s) == {s[i] : i \in DOMAIN s}

IsIn(x, s) == x \in Range(s)

NoDup(s) == \A i, j \in DOMAIN s : s[i] = s[j] => i = j

\* Position of the first occurrence of x in s (0 when absent).
IndexOf(x, s) ==
    IF IsIn(x, s) THEN CHOOSE i \in DOMAIN s : s[i] = x /\ \A j \in 1..(i - 1) : s[j] # x
    ELSE 0

\* A list left as it is where the code reverses it.
NotReversed(s) == s

RECURSIVE Reverse(_)
Reverse(s) == IF s = <<>> THEN <<>> ELSE Reverse(Tail(s)) \o <<Head(s)>>

RECURSIVE SeqsOf(_)
\* Every list of distinct members of S.
SeqsOf(S) ==
    {<<>>} \cup UNION {{<<x>> \o t : t \in SeqsOf(S \ {x})} : x \in S}

NodeLists == SeqsOf(Nodes)

\* ------------------------------------------------------- ConnectionManager
\* An omitted input_index (None) is <<>>, a given one is <<i>>.
NoIndex == <<>>
Index(i) == <<i>>

\* disconnect_all leaving the loop at the first slot it clears.
disconnect_all_first(g, source, target, i) ==
    LET found == {k \in Slots(target) : k >= i /\ input(g, target, k) = source}
    IN  IF found = {} THEN [g |-> g, ret |-> FALSE]
        ELSE [g |-> setInput(g, target, CHOOSE k \in found : \A m \in found : k <= m, None),
              ret |-> TRUE]

RECURSIVE disconnect_all(_, _, _, _)
\* "for i in range(target.inputs()): if target.input(i) == source: ..."
disconnect_all(g, source, target, i) ==
    IF i >= inputs(target) THEN [g |-> g, ret |-> FALSE]
    ELSE IF input(g, target, i) = source
         THEN [g |-> disconnect_all(setInput(g, target, i, None), source, target, i + 1).g,
               ret |-> TRUE]
         ELSE disconnect_all(g, source, target, i + 1)

disconnect_nodes(g, source, target, input_index) ==
    IF input_index # NoIndex
    THEN IF input(g, target, input_index[1]) = source
         THEN [g |-> setInput(g, target, input_index[1], None), ret |-> TRUE]
         ELSE [g |-> g, ret |-> FALSE]
    ELSE disconnect_all(g, source, target, 0)

connect_nodes(g, source, target, input_index) ==
    IF input_index >= inputs(target)
    THEN [g |-> g, ret |-> FALSE]
    ELSE LET existing_source == input(g, target, input_index)
             g1 == IF existing_source # None
                   THEN disconnect_nodes(g, existing_source, target, Index(input_index)).g
                   ELSE g
         IN  [g |-> setInput(g1, target, input_index, source), ret |-> TRUE]

\* slots_holding with a "break" after the first slot found, as in
\* get_node_connections: a dependent reading node twice is recorded once.
slots_holding_break(g, dep, node, i) ==
    LET found == {k \in Slots(dep) : k >= i /\ input(g, dep, k) = node}
    IN  IF found = {} THEN <<>>
        ELSE <<<<dep, CHOOSE k \in found : \A m \in found : k <= m>>>>

RECURSIVE slots_holding(_, _, _, _)
\* "for i in range(dep.inputs()): if dep.input(i) == node: append((dep, i))"
slots_holding(g, dep, node, i) ==
    IF i >= inputs(dep) THEN <<>>
    ELSE (IF input(g, dep, i) = node THEN <<<<dep, i>>>> ELSE <<>>)
         \o slots_holding(g, dep, node, i + 1)

RECURSIVE original_connections(_, _, _)
\* The (dependent, slot) pairs of node, snapshotted over the list deps.
original_connections(g, node, deps) ==
    IF deps = <<>> THEN <<>>
    ELSE slots_holding(g, Head(deps), node, 0)
         \o original_connections(g, node, Tail(deps))

RECURSIVE reconnect_through(_, _, _, _)
\* "for dep, input_idx in original_connections: disconnect; connect"
reconnect_through(g, existing_source, new_node, conns) ==
    IF conns = <<>> THEN g
    ELSE LET dep == Head(conns)[1]
             input_idx == Head(conns)[2]
             g1 == disconnect_nodes(g, existing_source, dep, Index(input_idx)).g
             g2 == connect_nodes(g1, new_node, dep, input_idx).g
         IN  reconnect_through(g2, existing_source, new_node, Tail(conns))

\* insert_node that, between two given nodes, connects new_node to the
\* target but never connects existing_source to new_node.
insert_node_unfed(g, existing_source, new_node, existing_target, input_index) ==
    IF existing_target # None
    THEN LET d == disconnect_nodes(g, existing_source, existing_target, Index(input_index))
         IN  IF d.ret
             THEN [g |-> connect_nodes(d.g, new_node, existing_target, input_index).g,
                   ret |-> TRUE]
             ELSE [g |-> g, ret |-> FALSE]
    ELSE LET conns == original_connections(g, existing_source, dependent(g, existing_source))
             g1 == reconnect_through(g, existing_source, new_node, conns)
             g2 == connect_nodes(g1, existing_source, new_node, 0).g
         IN  [g |-> g2, ret |-> Len(conns) > 0]

insert_node(g, existing_source, new_node, existing_target, input_index) ==
    IF existing_target # None
    THEN LET d == disconnect_nodes(g, existing_source, existing_target, Index(input_index))
         IN  IF d.ret
             THEN LET g1 == connect_nodes(d.g, existing_source, new_node, 0).g
                      g2 == connect_nodes(g1, new_node, existing_target, input_index).g
                  IN  [g |-> g2, ret |-> TRUE]
             ELSE [g |-> g, ret |-> FALSE]
    ELSE LET conns == original_connections(g, existing_source, dependent(g, existing_source))
             g1 == reconnect_through(g, existing_source, new_node, conns)
             g2 == connect_nodes(g1, existing_source, new_node, 0).g
         IN  [g |-> g2, ret |-> Len(conns) > 0]

RECURSIVE input_connections(_, _, _)
\* "for i in range(old_node.inputs()): if input_node: append((i, input_node))"
input_connections(g, old_node, i) ==
    IF i >= inputs(old_node) THEN <<>>
    ELSE (IF input(g, old_node, i) # None THEN <<<<i, input(g, old_node, i)>>>> ELSE <<>>)
         \o input_connections(g, old_node, i + 1)

\* copy_inputs without the "input_idx < new_node.inputs()" replay of any
\* slot but the first recorded one.
copy_inputs_first_only(g, new_node, conns) ==
    IF conns = <<>> THEN g
    ELSE IF Head(conns)[1] < inputs(new_node)
         THEN connect_nodes(g, Head(conns)[2], new_node, Head(conns)[1]).g
         ELSE g

RECURSIVE copy_inputs(_, _, _)
\* "for input_idx, input_node in input_connections: if input_idx < new_node.inputs()"
copy_inputs(g, new_node, conns) ==
    IF conns = <<>> THEN g
    ELSE LET input_idx == Head(conns)[1]
             input_node == Head(conns)[2]
             g1 == IF input_idx < inputs(new_node)
                   THEN connect_nodes(g, input_node, new_node, input_idx).g
                   ELSE g
         IN  copy_inputs(g1, new_node, Tail(conns))

RECURSIVE output_keys(_)
\* The keys of output_connections in insertion order: the slot indices in
\* the order the snapshot loop first meets them.
output_keys(conns) ==
    IF conns = <<>> THEN <<>>
    ELSE LET rest == output_keys(SubSeq(conns, 1, Len(conns) - 1))
             k == conns[Len(conns)][2]
         IN  IF IsIn(k, rest) THEN rest ELSE Append(rest, k)

RECURSIVE output_deps(_, _)
\* output_connections[k]: the dependents appended under slot index k.
output_deps(conns, k) ==
    IF conns = <<>> THEN <<>>
    ELSE (IF Head(conns)[2] = k THEN <<Head(conns)[1]>> ELSE <<>>)
         \o output_deps(Tail(conns), k)

\* reroute_dep that stops after the first slot it reconnects.
reroute_dep_break(g, old_node, new_node, dep, dep_input_idx) ==
    LET found == {k \in Slots(dep) : k >= dep_input_idx /\ input(g, dep, k) = old_node}
    IN  IF found = {} THEN g
        ELSE connect_nodes(g, new_node, dep, CHOOSE k \in found : \A m \in found : k <= m).g

RECURSIVE reroute_dep(_, _, _, _, _)
\* "for dep_input_idx in range(dep.inputs()): if dep.input(dep_input_idx) == old_node"
reroute_dep(g, old_node, new_node, dep, dep_input_idx) ==
    IF dep_input_idx >= inputs(dep) THEN g
    ELSE LET g1 == IF input(g, dep, dep_input_idx) = old_node
                   THEN connect_nodes(g, new_node, dep, dep_input_idx).g
                   ELSE g
         IN  reroute_dep(g1, old_node, new_node, dep, dep_input_idx + 1)

RECURSIVE reroute_deps(_, _, _, _)
reroute_deps(g, old_node, new_node, deps) ==
    IF deps = <<>> THEN g
    ELSE reroute_deps(reroute_dep(g, old_node, new_node, Head(deps), 0),
                      old_node, new_node, Tail(deps))

RECURSIVE copy_outputs(_, _, _, _, _)
\* "for output_idx, deps in output_connections.items(): for dep in deps"
copy_outputs(g, old_node, new_node, conns, keys) ==
    IF keys = <<>> THEN g
    ELSE copy_outputs(reroute_deps(g, old_node, new_node, output_deps(conns, Head(keys))),
                      old_node, new_node, conns, Tail(keys))

reroute_connections(g, old_node, new_node, copy_connections) ==
    LET ins == input_connections(g, old_node, 0)
        outs == original_connections(g, old_node, dependent(g, old_node))
        g1 == IF copy_connections THEN copy_inputs(g, new_node, ins) ELSE g
        g2 == IF copy_connections
              THEN copy_outputs(g1, old_node, new_node, outs, output_keys(outs))
              ELSE g1
    IN  [g |-> g2, ret |-> TRUE]

\* ---------------------------------------------------------- GraphTraversal
\* "input_node and input_node in nodes": the slots of node that hold a
\* member of nodes; indegree counts one per such slot.
indegree_of(g, nodes, node) ==
    Cardinality({i \in Slots(node) :
                    input(g, node, i) # None /\ IsIn(input(g, node, i), nodes)})

RECURSIVE reduce_indegree(_, _, _, _)
\* "for dependent in current.dependent(): if dependent in nodes: ..."
reduce_indegree(nodes, deps, indegree, queue) ==
    IF deps = <<>> THEN [indegree |-> indegree, queue |-> queue]
    ELSE LET dep == Head(deps)
             dec == [indegree EXCEPT ![dep] = @ - 1]
         IN  IF IsIn(dep, nodes)
             THEN reduce_indegree(nodes, Tail(deps), dec,
                                  IF dec[dep] = 0 THEN Append(queue, dep) ELSE queue)
             ELSE reduce_indegree(nodes, Tail(deps), indegree, queue)

RECURSIVE kahn(_, _, _, _, _)
\* "while queue: current = queue.popleft(); result.append(current); ..."
kahn(g, nodes, indegree, queue, result) ==
    IF queue = <<>> THEN result
    ELSE LET current == Head(queue)
             r == reduce_indegree(nodes, dependent(g, current), indegree, Tail(queue))
         IN  kahn(g, nodes, r.indegree, r.queue, Append(result, current))

\* topological_sort without "result.extend(remaining)".
topological_sort_unextended(g, nodes) ==
    LET indegree == [n \in Nodes |-> IF IsIn(n, nodes) THEN indegree_of(g, nodes, n) ELSE 0]
        start == SelectSeq(nodes, LAMBDA n : indegree[n] = 0)
        sorted == kahn(g, nodes, indegree, start, <<>>)
    IN  [result |-> sorted, cycle_warning |-> Len(sorted) # Len(nodes), sorted |-> sorted]

\* result is the returned list; cycle_warning is whether the "Graph has
\* cycles" warning was logged; sorted is result as the while loop left it.
topological_sort(g, nodes) ==
    LET indegree == [n \in Nodes |-> IF IsIn(n, nodes) THEN indegree_of(g, nodes, n) ELSE 0]
        start == SelectSeq(nodes, LAMBDA n : indegree[n] = 0)
        sorted == kahn(g, nodes, indegree, start, <<>>)
        remaining == SelectSeq(nodes, LAMBDA n : ~IsIn(n, sorted))
    IN  IF Len(sorted) # Len(nodes)
        THEN [result |-> sorted \o remaining, cycle_warning |-> TRUE, sorted |-> sorted]
        ELSE [result |-> sorted, cycle_warning |-> FALSE, sorted |-> sorted]

\* The state of find_cycles: its four locals, and hung, which is set when
\* the walk "while node_in_cycle != dependent" can no longer end:
\* parent_map.get returns None for a node with no parent, None is not the
\* dependent, and parent_map.get(None) is None again.
NoParents == [n \in Nodes |-> None]

RECURSIVE walk_parents_on(_, _, _)
walk_parents_on(node_in_cycle, dep, parent_map) ==
    IF node_in_cycle = dep THEN <<>>
    ELSE IF node_in_cycle = None THEN <<None>>
    ELSE <<node_in_cycle>> \o walk_parents_on(parent_map[node_in_cycle], dep, parent_map)

\* The walk started at the parent of current instead of current.
walk_parents_late(node_in_cycle, dep, parent_map) ==
    IF node_in_cycle = dep THEN <<>>
    ELSE IF node_in_cycle = None THEN <<None>>
    ELSE walk_parents_on(parent_map[node_in_cycle], dep, parent_map)

RECURSIVE walk_parents(_, _, _)
\* The nodes appended by the while loop, or <<None>> when it reaches None.
walk_parents(node_in_cycle, dep, parent_map) ==
    IF node_in_cycle = dep THEN <<>>
    ELSE IF node_in_cycle = None THEN <<None>>
    ELSE <<node_in_cycle>> \o walk_parents(parent_map[node_in_cycle], dep, parent_map)

RECURSIVE dfs_cycle(_, _, _, _)
RECURSIVE dfs_cycle_deps(_, _, _, _, _)

\* "for dependent in current.dependent(): ..." and the two lines after the
\* loop.  Returns the state and whether dfs_cycle returns True.
dfs_cycle_deps(g, nodes, current, deps, st) ==
    IF deps = <<>>
    THEN [st |-> [st EXCEPT !.recursion_stack = @ \ {current}], found |-> FALSE]
    ELSE LET dep == Head(deps) IN
         IF ~IsIn(dep, nodes)
         THEN dfs_cycle_deps(g, nodes, current, Tail(deps), st)
         ELSE IF dep \notin st.visited
         THEN LET r == dfs_cycle(g, nodes, dep,
                                 [st EXCEPT !.parent_map[dep] = current])
              IN  IF r.found THEN r
                  ELSE dfs_cycle_deps(g, nodes, current, Tail(deps), r.st)
         ELSE IF dep \in st.recursion_stack
         THEN LET walked == walk_parents(current, dep, st.parent_map)
              IN  IF IsIn(None, walked)
                  THEN [st |-> [st EXCEPT !.hung = TRUE], found |-> TRUE]
                  ELSE [st |-> [st EXCEPT !.cycles =
                                   Append(@, Reverse(Append(walked, dep)))],
                        found |-> TRUE]
         ELSE dfs_cycle_deps(g, nodes, current, Tail(deps), st)

dfs_cycle(g, nodes, current, st) ==
    dfs_cycle_deps(g, nodes, current, dependent(g, current),
                   [st EXCEPT !.visited = @ \cup {current},
                              !.recursion_stack = @ \cup {current}])

RECURSIVE find_cycles_from(_, _, _, _)
\* "for node in nodes: if node not in visited: parent_map.clear(); dfs_cycle(node)"
find_cycles_from(g, nodes, rest, st) ==
    IF rest = <<>> \/ st.hung THEN st
    ELSE IF Head(rest) \notin st.visited
         THEN find_cycles_from(g, nodes, Tail(rest),
                  dfs_cycle(g, nodes, Head(rest), [st EXCEPT !.parent_map = NoParents]).st)
         ELSE find_cycles_from(g, nodes, Tail(rest), st)

\* cycles is the returned list; hung is whether the call is stuck in the
\* walk instead of returning.
find_cycles(g, nodes) ==
    LET st == find_cycles_from(g, nodes, nodes,
                  [cycles |-> <<>>, visited |-> {}, recursion_stack |-> {},
                   parent_map |-> NoParents, hung |-> FALSE])
    IN  [cycles |-> st.cycles, hung |-> st.hung]

\* "if len(a) > len(b)" keeps b on a tie.
Longer(a, b) == IF Len(a) > Len(b) THEN a ELSE b

RECURSIVE longest_dfs(_, _, _, _, _, _)
RECURSIVE longest_dfs_deps(_, _, _, _, _, _)

\* "for dep in current.dependent(): if dep in all_nodes and dep not in
\* visited: dfs(dep, current_path, visited.copy())"; longest is the nonlocal.
longest_dfs_deps(g, all_nodes, deps, current_path, visited, longest) ==
    IF deps = <<>> THEN longest
    ELSE LET dep == Head(deps)
             l1 == IF IsIn(dep, all_nodes) /\ dep \notin visited
                   THEN longest_dfs(g, all_nodes, dep, current_path, visited, longest)
                   ELSE longest
         IN  longest_dfs_deps(g, all_nodes, Tail(deps), current_path, visited, l1)

longest_dfs(g, all_nodes, current, path, visited, longest) ==
    LET current_path == Append(path, current)
    IN  longest_dfs_deps(g, all_nodes, dependent(g, current), current_path,
                         visited \cup {current}, Longer(current_path, longest))

find_longest_path_from(g, start, all_nodes) ==
    longest_dfs(g, all_nodes, start, <<>>, {}, <<>>)

\* "all(n.input(i) is None for i in range(n.inputs()))"
is_source_node(g, n) == \A i \in Slots(n) : input(g, n, i) = None

RECURSIVE critical_over(_, _, _, _)
\* "for source in source_nodes: ... if len(path) > len(longest_path)"
critical_over(g, nodes, source_nodes, longest_path) ==
    IF source_nodes = <<>> THEN longest_path
    ELSE critical_over(g, nodes, Tail(source_nodes),
             Longer(find_longest_path_from(g, Head(source_nodes), nodes), longest_path))

find_critical_path(g, nodes) ==
    critical_over(g, nodes, SelectSeq(nodes, LAMBDA n : is_source_node(g, n)), <<>>)

Max(a, b) == IF a > b THEN a ELSE b

RECURSIVE depth_dfs(_, _, _, _, _)
RECURSIVE depth_dfs_inputs(_, _, _, _, _, _)

\* "for i in range(current.inputs()): ... if input_node and input_node in
\* all_nodes and input_node not in visited"; visited is one shared set.
depth_dfs_inputs(g, all_nodes, current, i, st, current_depth) ==
    IF i >= inputs(current) THEN st
    ELSE LET input_node == input(g, current, i)
             st1 == IF input_node # None /\ IsIn(input_node, all_nodes)
                       /\ input_node \notin st.visited
                    THEN depth_dfs(g, all_nodes, input_node,
                                   [st EXCEPT !.visited = @ \cup {input_node}],
                                   current_depth + 1)
                    ELSE st
         IN  depth_dfs_inputs(g, all_nodes, current, i + 1, st1, current_depth)

depth_dfs(g, all_nodes, current, st, current_depth) ==
    depth_dfs_inputs(g, all_nodes, current, 0,
                     [st EXCEPT !.max_depth = Max(@, current_depth)], current_depth)

get_dependency_depth(g, node, all_nodes) ==
    depth_dfs(g, all_nodes, node, [visited |-> {node}, max_depth |-> 0], 0).max_depth

\* A position is <<xpos, ypos>>; the sort key is (ypos, xpos), compared as
\* Python compares tuples.
get_position_key(pos, node) == <<pos[node][2], pos[node][1]>>

KeyLE(a, b) == a[1] < b[1] \/ (a[1] = b[1] /\ a[2] <= b[2])

RECURSIVE insert_by_position(_, _, _)
\* x put after every member of the sorted list s whose key is not greater.
insert_by_position(pos, s, x) ==
    IF s = <<>> THEN <<x>>
    ELSE IF KeyLE(get_position_key(pos, Head(s)), get_position_key(pos, x))
         THEN <<Head(s)>> \o insert_by_position(pos, Tail(s), x)
         ELSE <<x>> \o s

RECURSIVE sort_into(_, _, _)
sort_into(pos, done, group) ==
    IF group = <<>> THEN done
    ELSE sort_into(pos, insert_by_position(pos, done, Head(group)), Tail(group))

\* sorted(group, key=get_position_key): stable, so equal keys keep the
\* order of group.
sorted_by_position(pos, group) == sort_into(pos, <<>>, group)

RECURSIVE depth_groups(_, _, _)
\* "for node in ordered: depth = ...; depth_groups[depth].append(node)":
\* the <<node, depth>> pairs in the order of ordered.
depth_groups(g, nodes, ordered) ==
    IF ordered = <<>> THEN <<>>
    ELSE <<<<Head(ordered), get_dependency_depth(g, Head(ordered), nodes)>>>>
         \o depth_groups(g, nodes, Tail(ordered))

RECURSIVE strip_depth(_)
strip_depth(pairs) ==
    IF pairs = <<>> THEN <<>> ELSE <<Head(pairs)[1]>> \o strip_depth(Tail(pairs))

RECURSIVE groups_by_depth(_, _, _, _)
\* "for depth in sorted(depth_groups.keys()): result.extend(sorted(group))"
groups_by_depth(pos, pairs, depth, top) ==
    IF depth > top THEN <<>>
    ELSE sorted_by_position(pos, strip_depth(SelectSeq(pairs, LAMBDA p : p[2] = depth)))
         \o groups_by_depth(pos, pairs, depth + 1, top)

\* result is the returned list; depths holds the depth each node was
\* grouped under, as <<node, depth>> pairs.
get_execution_order(g, pos, nodes) ==
    LET ordered == topological_sort(g, nodes).result
        pairs == depth_groups(g, nodes, ordered)
    IN  [result |-> groups_by_depth(pos, pairs, 0, Len(nodes)), depths |-> pairs]

RECURSIVE expand_dependents(_, _, _, _, _)
\* "for dependent in current.dependent(): if dependent in all_nodes and
\* dependent not in visited: visited.add; queue.append((dependent, path + ...))"
expand_dependents(all_nodes, deps, path, queue, visited) ==
    IF deps = <<>> THEN [queue |-> queue, visited |-> visited]
    ELSE LET dep == Head(deps) IN
         IF IsIn(dep, all_nodes) /\ dep \notin visited
         THEN expand_dependents(all_nodes, Tail(deps), path,
                                Append(queue, <<dep, Append(path, dep)>>),
                                visited \cup {dep})
         ELSE expand_dependents(all_nodes, Tail(deps), path, queue, visited)

RECURSIVE shortest_bfs(_, _, _, _, _, _, _)
\* The while loop of _find_shortest_paths; shortest_length None is 0.
shortest_bfs(g, end, all_nodes, queue, visited, shortest_length, shortest_paths) ==
    IF queue = <<>> THEN shortest_paths
    ELSE LET current == Head(queue)[1]
             path == Head(queue)[2]
         IN  IF current = end
             THEN IF shortest_length = 0 \/ Len(path) = shortest_length
                  THEN shortest_bfs(g, end, all_nodes, Tail(queue), visited,
                                    Len(path), Append(shortest_paths, path))
                  ELSE IF Len(path) > shortest_length THEN shortest_paths
                  ELSE shortest_bfs(g, end, all_nodes, Tail(queue), visited,
                                    shortest_length, shortest_paths)
             ELSE LET r == expand_dependents(all_nodes, dependent(g, current), path,
                                             Tail(queue), visited)
                  IN  shortest_bfs(g, end, all_nodes, r.queue, r.visited,
                                   shortest_length, shortest_paths)

find_shortest_paths(g, start, end, all_nodes) ==
    shortest_bfs(g, end, all_nodes, <<<<start, <<start>>>>>>, {start}, 0, <<>>)

\* "if len(paths) >= max_paths" one path late.
paths_full_late(paths, max_paths) == Len(paths) > max_paths

\* "if len(paths) >= max_paths: return"
paths_full(paths, max_paths) == Len(paths) >= max_paths

RECURSIVE dfs_find_paths(_, _, _, _, _, _, _, _)
RECURSIVE find_paths_deps(_, _, _, _, _, _, _, _)

\* "for dependent in current.dependent(): if dependent not in visited:
\* current_path.append(dependent); dfs_find_paths(...); current_path.pop()".
\* visited holds current and the nodes before it on current_path: every
\* call that adds a node removes it again before it returns.
find_paths_deps(g, end_node, max_paths, max_length, deps, current_path, visited, paths) ==
    IF deps = <<>> THEN paths
    ELSE LET dep == Head(deps)
             p1 == IF dep \notin visited
                   THEN dfs_find_paths(g, end_node, max_paths, max_length, dep,
                                       Append(current_path, dep), visited, paths)
                   ELSE paths
         IN  find_paths_deps(g, end_node, max_paths, max_length, Tail(deps),
                             current_path, visited, p1)

dfs_find_paths(g, end_node, max_paths, max_length, current, current_path, visited, paths) ==
    IF paths_full(paths, max_paths) THEN paths
    ELSE IF Len(current_path) > max_length THEN paths
    ELSE IF current = end_node THEN Append(paths, current_path)
    ELSE find_paths_deps(g, end_node, max_paths, max_length, dependent(g, current),
                         current_path, visited \cup {current}, paths)

find_all_paths(g, start_node, end_node, max_paths, max_length) ==
    dfs_find_paths(g, end_node, max_paths, max_length, start_node, <<start_node>>, {}, <<>>)

\* ------------------------------------- ConnectionManager, path and walks
\* "return None" of find_connection_path: a path is never empty.
NoPath == <<>>

\* "if len(path) > max_depth" one node early.
too_deep_early(path, max_depth) == Len(path) >= max_depth

\* "if len(path) > max_depth: continue"
too_deep(path, max_depth) == Len(path) > max_depth

RECURSIVE input_nodes(_, _, _)
\* "for i in range(current.inputs()): input_node = current.input(i); if
\* input_node ...": the occupants of current's slots, in slot order.
input_nodes(g, current, i) ==
    IF i >= inputs(current) THEN <<>>
    ELSE (IF input(g, current, i) # None THEN <<input(g, current, i)>> ELSE <<>>)
         \o input_nodes(g, current, i + 1)

RECURSIVE enqueue_unvisited(_, _, _, _)
\* "if dep not in visited: visited.add(dep); queue.append((dep, path + [dep]))"
\* for each of found in turn.
enqueue_unvisited(found, path, queue, visited) ==
    IF found = <<>> THEN [queue |-> queue, visited |-> visited]
    ELSE IF Head(found) \notin visited
         THEN enqueue_unvisited(Tail(found), path,
                                Append(queue, <<Head(found), Append(path, Head(found))>>),
                                visited \cup {Head(found)})
         ELSE enqueue_unvisited(Tail(found), path, queue, visited)

RECURSIVE connection_bfs(_, _, _, _, _)
\* The while loop of find_connection_path: outputs are checked before
\* inputs.
connection_bfs(g, end_node, max_depth, queue, visited) ==
    IF queue = <<>> THEN NoPath
    ELSE LET current == Head(queue)[1]
             path == Head(queue)[2]
         IN  IF too_deep(path, max_depth)
             THEN connection_bfs(g, end_node, max_depth, Tail(queue), visited)
             ELSE IF current = end_node THEN path
             ELSE LET r == enqueue_unvisited(dependent(g, current) \o input_nodes(g, current, 0),
                                             path, Tail(queue), visited)
                  IN  connection_bfs(g, end_node, max_depth, r.queue, r.visited)

find_connection_path(g, start_node, end_node, max_depth) ==
    connection_bfs(g, end_node, max_depth, <<<<start_node, <<start_node>>>>>>, {start_node})

RECURSIVE traverse_upstream(_, _, _, _)
\* "for i in range(current.inputs()): if input_node and input_node not in
\* upstream: upstream.add(input_node); traverse_upstream(input_node)"
traverse_upstream(g, current, i, upstream) ==
    IF i >= inputs(current) THEN upstream
    ELSE LET input_node == input(g, current, i)
             u1 == IF input_node # None /\ input_node \notin upstream
                   THEN traverse_upstream(g, input_node, 0, upstream \cup {input_node})
                   ELSE upstream
         IN  traverse_upstream(g, current, i + 1, u1)

\* The returned list holds the members of the set, in no stated order.
get_upstream_nodes(g, node, include_self) ==
    LET upstream == traverse_upstream(g, node, 0, {})
    IN  IF include_self THEN upstream \cup {node} ELSE upstream

RECURSIVE traverse_downstream(_, _, _)
\* "for dep in current.dependent(): if dep not in downstream: ..."
traverse_downstream(g, deps, downstream) ==
    IF deps = <<>> THEN downstream
    ELSE LET dep == Head(deps)
             d1 == IF dep \notin downstream
                   THEN traverse_downstream(g, dependent(g, dep), downstream \cup {dep})
                   ELSE downstream
         IN  traverse_downstream(g, Tail(deps), d1)

get_downstream_nodes(g, node, include_self) ==
    LET downstream == traverse_downstream(g, dependent(g, node), {})
    IN  IF include_self THEN downstream \cup {node} ELSE downstream

\* ------------------------------------------ GraphTraversal, components
RECURSIVE component_enqueue_any(_, _, _, _)
\* component_enqueue without "in nodes": any unvisited neighbour is queued.
component_enqueue_any(nodes, found, queue, visited) ==
    IF found = <<>> THEN [queue |-> queue, visited |-> visited]
    ELSE IF Head(found) \notin visited
         THEN component_enqueue_any(nodes, Tail(found), Append(queue, Head(found)),
                                    visited \cup {Head(found)})
         ELSE component_enqueue_any(nodes, Tail(found), queue, visited)

RECURSIVE component_enqueue(_, _, _, _)
\* "if input_node and input_node in nodes and input_node not in visited:
\* visited.add(input_node); queue.append(input_node)", and the same for the
\* dependents.
component_enqueue(nodes, found, queue, visited) ==
    IF found = <<>> THEN [queue |-> queue, visited |-> visited]
    ELSE IF IsIn(Head(found), nodes) /\ Head(found) \notin visited
         THEN component_enqueue(nodes, Tail(found), Append(queue, Head(found)),
                                visited \cup {Head(found)})
         ELSE component_enqueue(nodes, Tail(found), queue, visited)

RECURSIVE component_bfs(_, _, _, _, _)
\* "while queue: current = queue.popleft(); component.append(current); ..."
component_bfs(g, nodes, queue, visited, component) ==
    IF queue = <<>> THEN [component |-> component, visited |-> visited]
    ELSE LET current == Head(queue)
             r == component_enqueue(nodes,
                                    input_nodes(g, current, 0) \o dependent(g, current),
                                    Tail(queue), visited)
         IN  component_bfs(g, nodes, r.queue, r.visited, Append(component, current))

RECURSIVE components_from(_, _, _, _, _)
\* "for node in nodes: if node not in visited: ..."
components_from(g, nodes, rest, visited, components) ==
    IF rest = <<>> THEN components
    ELSE IF Head(rest) \notin visited
         THEN LET r == component_bfs(g, nodes, <<Head(rest)>>,
                                     visited \cup {Head(rest)}, <<>>)
              IN  components_from(g, nodes, Tail(rest), r.visited,
                                  Append(components, r.component))
         ELSE components_from(g, nodes, Tail(rest), visited, components)

get_graph_components(g, nodes) == components_from(g, nodes, nodes, {}, <<>>)

\* ------------------------------------------- GraphTraversal, centrality
\* Scores are exact fractions: a running score is a whole number of
\* 1/Unit, so that "1.0 / len(paths)" is Unit \div Len(paths) for every
\* number of paths a graph of this size can have.
Unit == 12

RECURSIVE add_interior(_, _, _, _)
\* "for node in path[1:-1]: centrality[node.name()] += 1.0 / len(paths)":
\* k runs over the positions 2..Len(path)-1.
add_interior(centrality, path, k, share) ==
    IF k >= Len(path) THEN centrality
    ELSE add_interior([centrality EXCEPT ![path[k]] = @ + share], path, k + 1, share)

RECURSIVE add_paths(_, _, _)
\* "for path in paths: ..."
add_paths(centrality, paths, share) ==
    IF paths = <<>> THEN centrality
    ELSE add_paths(add_interior(centrality, Head(paths), 2, share), Tail(paths), share)

RECURSIVE centrality_ends(_, _, _, _, _)
\* "for end in nodes[i+1:]: paths = self._find_shortest_paths(start, end,
\* nodes); if paths: ..."
centrality_ends(g, nodes, start, ends, centrality) ==
    IF ends = <<>> THEN centrality
    ELSE LET paths == find_shortest_paths(g, start, Head(ends), nodes)
             c1 == IF Head(ends) = start \/ paths = <<>> THEN centrality
                   ELSE add_paths(centrality, paths, Unit \div Len(paths))
         IN  centrality_ends(g, nodes, start, Tail(ends), c1)

RECURSIVE centrality_starts(_, _, _, _)
\* "for i, start in enumerate(nodes): ..."
centrality_starts(g, nodes, i, centrality) ==
    IF i > Len(nodes) THEN centrality
    ELSE centrality_starts(g, nodes, i + 1,
             centrality_ends(g, nodes, nodes[i], SubSeq(nodes, i + 1, Len(nodes)),
                             centrality))

RECURSIVE max_value(_, _)
\* max(centrality.values()) over the keys of the dict, the nodes of nodes.
max_value(centrality, nodes) ==
    IF nodes = <<>> THEN 0
    ELSE Max(centrality[Head(nodes)], max_value(centrality, Tail(nodes)))

\* The returned dict: the score of node n is the fraction
\* score[n] / over (a node outside nodes has no key; its entry stays 0).
calculate_node_centrality(g, nodes) ==
    LET centrality == centrality_starts(g, nodes, 1, [n \in Nodes |-> 0])
        max_score == max_value(centrality, nodes)
    IN  IF nodes # <<>> /\ max_score > 0
        THEN [score |-> centrality, over |-> max_score]
        ELSE [score |-> centrality, over |-> Unit]

\* ---------------------------------------- GraphTraversal, bfs and dfs
\* An omitted max_depth or filter_func (None) is <<>>, a given one <<x>>.
\* A filter function is the set of nodes it returns True for.
NoDepth == <<>>
NoFilter == <<>>

Directions == {"forward", "backward", "both"}

\* "if filter_func and not filter_func(current)"
filtered_out(filter_func, current) ==
    filter_func # NoFilter /\ current \notin filter_func[1]

\* "if max_depth and depth >= max_depth": a max_depth of 0 is falsy.
at_depth_limit(max_depth, depth) ==
    max_depth # NoDepth /\ max_depth[1] # 0 /\ depth >= max_depth[1]

\* "if max_depth and depth > max_depth"
past_depth_limit(max_depth, depth) ==
    max_depth # NoDepth /\ max_depth[1] # 0 /\ depth > max_depth[1]

\* neighbors: the dependents for 'forward' and 'both', then the occupied
\* inputs in slot order for 'backward' and 'both'.
neighbors_of(g, current, direction) ==
    (IF direction \in {"forward", "both"} THEN dependent(g, current) ELSE <<>>)
    \o (IF direction \in {"backward", "both"} THEN input_nodes(g, current, 0) ELSE <<>>)

RECURSIVE bfs_enqueue(_, _, _, _)
\* "for neighbor in neighbors: if neighbor not in visited_set: ..."
bfs_enqueue(neighbors, depth, queue, visited_set) ==
    IF neighbors = <<>> THEN [queue |-> queue, visited_set |-> visited_set]
    ELSE IF Head(neighbors) \notin visited_set
         THEN bfs_enqueue(Tail(neighbors), depth,
                          Append(queue, <<Head(neighbors), depth + 1>>),
                          visited_set \cup {Head(neighbors)})
         ELSE bfs_enqueue(Tail(neighbors), depth, queue, visited_set)

RECURSIVE bfs_loop(_, _, _, _, _, _, _)

\* The while loop with the filter applied after the neighbours are queued: a
\* node failing the filter is not returned but is expanded.
bfs_loop_expanding(g, direction, max_depth, filter_func, queue, visited_set, visited) ==
    IF queue = <<>> THEN visited
    ELSE LET current == Head(queue)[1]
             depth == Head(queue)[2]
             r == bfs_enqueue(neighbors_of(g, current, direction), depth,
                              Tail(queue), visited_set)
             seen == IF filtered_out(filter_func, current) THEN visited
                     ELSE Append(visited, current)
         IN  IF at_depth_limit(max_depth, depth)
             THEN bfs_loop(g, direction, max_depth, filter_func, Tail(queue),
                           visited_set, seen)
             ELSE bfs_loop(g, direction, max_depth, filter_func, r.queue,
                           r.visited_set, seen)

\* The while loop of bfs_traversal.
bfs_loop(g, direction, max_depth, filter_func, queue, visited_set, visited) ==
    IF queue = <<>> THEN visited
    ELSE LET current == Head(queue)[1]
             depth == Head(queue)[2]
         IN  IF filtered_out(filter_func, current)
             THEN bfs_loop(g, direction, max_depth, filter_func, Tail(queue),
                           visited_set, visited)
             ELSE IF at_depth_limit(max_depth, depth)
             THEN bfs_loop(g, direction, max_depth, filter_func, Tail(queue),
                           visited_set, Append(visited, current))
             ELSE LET r == bfs_enqueue(neighbors_of(g, current, direction), depth,
                                       Tail(queue), visited_set)
                  IN  bfs_loop(g, direction, max_depth, filter_func, r.queue,
                               r.visited_set, Append(visited, current))

\* bfs_traversal with "visited_set = set()": the start node is not marked.
bfs_traversal_unmarked(g, start_node, direction, max_depth, filter_func) ==
    bfs_loop(g, direction, max_depth, filter_func, <<<<start_node, 0>>>>, {}, <<>>)

bfs_traversal(g, start_node, direction, max_depth, filter_func) ==
    bfs_loop(g, direction, max_depth, filter_func, <<<<start_node, 0>>>>,
             {start_node}, <<>>)

RECURSIVE dfs_recursive(_, _, _, _, _, _, _)
RECURSIVE dfs_neighbors(_, _, _, _, _, _, _)

\* "for neighbor in neighbors: dfs_recursive(neighbor, depth + 1)"
dfs_neighbors(g, direction, max_depth, filter_func, neighbors, depth, st) ==
    IF neighbors = <<>> THEN st
    ELSE dfs_neighbors(g, direction, max_depth, filter_func, Tail(neighbors), depth,
             dfs_recursive(g, direction, max_depth, filter_func, Head(neighbors),
                           depth + 1, st))

dfs_recursive(g, direction, max_depth, filter_func, current, depth, st) ==
    IF current \in st.visited_set THEN st
    ELSE IF past_depth_limit(max_depth, depth) THEN st
    ELSE IF filtered_out(filter_func, current) THEN st
    ELSE dfs_neighbors(g, direction, max_depth, filter_func,
                       neighbors_of(g, current, direction), depth,
                       [visited_set |-> st.visited_set \cup {current},
                        visited |-> Append(st.visited, current)])

dfs_traversal(g, start_node, direction, max_depth, filter_func) ==
    dfs_recursive(g, direction, max_depth, filter_func, start_node, 0,
                  [visited_set |-> {}, visited |-> <<>>]).visited

RECURSIVE traverse_island_inputs(_, _, _)
RECURSIVE traverse_island_inputs_over(_, _, _)

traverse_island_inputs_over(g, found, visited) ==
    IF found = <<>> THEN visited
    ELSE traverse_island_inputs_over(g, Tail(found),
                                     traverse_island_inputs(g, Head(found), visited))

\* traverse of get_island_nodes without its "Traverse outputs" loop.
traverse_island_inputs(g, current, visited) ==
    IF current \in visited THEN visited
    ELSE traverse_island_inputs_over(g, input_nodes(g, current, 0), visited \cup {current})

RECURSIVE traverse_island(_, _, _)
RECURSIVE traverse_island_over(_, _, _)

\* "for ... traverse(input_node)" and "for dep in ...: traverse(dep)"
traverse_island_over(g, found, visited) ==
    IF found = <<>> THEN visited
    ELSE traverse_island_over(g, Tail(found), traverse_island(g, Head(found), visited))

\* traverse of get_island_nodes: inputs first, then dependents.
traverse_island(g, current, visited) ==
    IF current \in visited THEN visited
    ELSE traverse_island_over(g, input_nodes(g, current, 0) \o dependent(g, current),
                              visited \cup {current})

\* The returned list holds the members of the set, in no stated order.
get_island_nodes(g, node) == traverse_island(g, node, {})

\* ----------------------------------------------------------------- calls
\* last is the call that has just returned: its name, its arguments, the
\* graph it started from (pre) and what it returned.
Idle == [op |-> "none"]

IndexArgs == (-1)..MaxInputs

\* connect_nodes when the host raises on target.setInput: the statements
\* before it have run, the except clause returns False.
connect_nodes_rejected(g, source, target, input_index) ==
    IF input_index >= inputs(target)
    THEN [g |-> g, ret |-> FALSE]
    ELSE LET existing_source == input(g, target, input_index)
             g1 == IF existing_source # None
                   THEN disconnect_nodes(g, existing_source, target, Index(input_index)).g
                   ELSE g
         IN  [g |-> g1, ret |-> FALSE]

CallConnectNodes ==
    /\ last = Idle
    /\ \E source \in Nodes, target \in Nodes, i \in IndexArgs :
         LET r == connect_nodes(inp, source, target, i)
         IN  /\ inp' = r.g
             /\ last' = [op |-> "connect_nodes", source |-> source, target |-> target,
                         input_index |-> i, pre |-> inp, ret |-> r.ret]

CallDisconnectNodes ==
    /\ last = Idle
    /\ \E source \in Nodes, target \in Nodes,
          ix \in {NoIndex} \cup {Index(i) : i \in IndexArgs} :
         LET r == disconnect_nodes(inp, source, target, ix)
         IN  /\ inp' = r.g
             /\ last' = [op |-> "disconnect_nodes", source |-> source, target |-> target,
                         input_index |-> ix, pre |-> inp, ret |-> r.ret]

CallInsertNode ==
    /\ last = Idle
    /\ \E source \in Nodes, new \in Nodes, target \in Nodes \cup {None},
          i \in 0..(MaxInputs - 1) :
         /\ target = None => i = 0
         /\ LET r == insert_node(inp, source, new, target, i)
            IN  /\ inp' = r.g
                /\ last' = [op |-> "insert_node", source |-> source, new |-> new,
                            target |-> target, input_index |-> i, pre |-> inp,
                            ret |-> r.ret]

CallRerouteConnections ==
    /\ last = Idle
    /\ \E old \in Nodes, new \in Nodes, copy \in BOOLEAN :
         LET r == reroute_connections(inp, old, new, copy)
         IN  /\ inp' = r.g
             /\ last' = [op |-> "reroute_connections", old |-> old, new |-> new,
                         copy |-> copy, pre |-> inp, ret |-> r.ret]

\* The call returns to the script, which keeps the graph and goes on to its
\* next call.
Return ==
    /\ last # Idle
    /\ last' = Idle
    /\ UNCHANGED inp

\* Every assignment of the input slots: the graphs the connection calls can
\* build from the empty one.
AllGraphs ==
    LET Rows == UNION {[Slots(n) -> Nodes \cup {None}] : n \in Nodes}
    IN  {g \in [Nodes -> Rows] : \A n \in Nodes : DOMAIN g[n] = Slots(n)}

InitAnyGraph ==
    /\ inp \in AllGraphs
    /\ last = Idle

\* The graphs without a directed cycle, the ones the host lets a script build.
InitAcyclicGraph ==
    /\ inp \in {g \in AllGraphs : \A u \in Nodes : u \notin get_downstream_nodes(g, u, FALSE)}
    /\ last = Idle

CallTopologicalSort ==
    /\ last = Idle
    /\ \E nodes \in NodeLists :
         /\ last' = [op |-> "topological_sort", nodes |-> nodes,
                     out |-> topological_sort(inp, nodes)]
         /\ UNCHANGED inp

CallFindCycles ==
    /\ last = Idle
    /\ \E nodes \in NodeLists :
         /\ last' = [op |-> "find_cycles", nodes |-> nodes,
                     out |-> find_cycles(inp, nodes)]
         /\ UNCHANGED inp

CallFindCriticalPath ==
    /\ last = Idle
    /\ \E nodes \in NodeLists :
         /\ last' = [op |-> "find_critical_path", nodes |-> nodes,
                     out |-> find_critical_path(inp, nodes)]
         /\ UNCHANGED inp

CallGetGraphComponents ==
    /\ last = Idle
    /\ \E nodes \in NodeLists :
         /\ last' = [op |-> "get_graph_components", nodes |-> nodes,
                     out |-> get_graph_components(inp, nodes)]
         /\ UNCHANGED inp

NextTopology ==
    \/ CallTopologicalSort
    \/ CallFindCycles
    \/ CallFindCriticalPath
    \/ CallGetGraphComponents

SpecTopology == InitAnyGraph /\ [][NextTopology]_vars

\* A node list in ascending order, one per set of nodes.
RECURSIVE AscendingList(_)
AscendingList(S) ==
    IF S = {} THEN <<>>
    ELSE LET m == CHOOSE x \in S : \A y \in S : x <= y
         IN  <<m>> \o AscendingList(S \ {m})

\* node.xpos(), node.ypos(): the host's layout, which this code only reads.
\* A call sees the nodes it is given anywhere on a small grid (the others
\* are not looked at and stay at the origin).
MaxPos == 1

Positions == (0..MaxPos) \X (0..MaxPos)

Layouts(S) ==
    {pos \in [Nodes -> Positions] : \A n \in Nodes \ S : pos[n] = <<0, 0>>}

CallGetExecutionOrder ==
    /\ last = Idle
    /\ \E S \in SUBSET Nodes :
         \E pos \in Layouts(S) :
            /\ last' = [op |-> "get_execution_order", nodes |-> AscendingList(S),
                        pos |-> pos,
                        out |-> get_execution_order(inp, pos, AscendingList(S))]
            /\ UNCHANGED inp

NextOrder == CallGetExecutionOrder

SpecOrder == InitAcyclicGraph /\ [][NextOrder]_vars

CallFindShortestPaths ==
    /\ last = Idle
    /\ \E S \in SUBSET Nodes :
         \E start \in S, end \in S :
            /\ last' = [op |-> "find_shortest_paths", start |-> start, end |-> end,
                        nodes |-> AscendingList(S),
                        out |-> find_shortest_paths(inp, start, end, AscendingList(S))]
            /\ UNCHANGED inp

MaxPaths == 2

CallFindAllPaths ==
    /\ last = Idle
    /\ \E start \in Nodes, end \in Nodes, max_paths \in 0..MaxPaths,
          max_length \in 0..MaxNodes :
         last' = [op |-> "find_all_paths", start |-> start, end |-> end,
                  max_paths |-> max_paths, max_length |-> max_length,
                  out |-> find_all_paths(inp, start, end, max_paths, max_length)]
    /\ UNCHANGED inp

CallFindConnectionPath ==
    /\ last = Idle
    /\ \E start \in Nodes, end \in Nodes, max_depth \in 0..MaxNodes :
         last' = [op |-> "find_connection_path", start |-> start, end |-> end,
                  max_depth |-> max_depth,
                  out |-> find_connection_path(inp, start, end, max_depth)]
    /\ UNCHANGED inp

NextPaths ==
    \/ CallFindShortestPaths
    \/ CallFindAllPaths
    \/ CallFindConnectionPath

SpecPaths == InitAnyGraph /\ [][NextPaths]_vars

CallCalculateNodeCentrality ==
    /\ last = Idle
    /\ \E nodes \in NodeLists :
         /\ last' = [op |-> "calculate_node_centrality", nodes |-> nodes,
                     out |-> calculate_node_centrality(inp, nodes)]
         /\ UNCHANGED inp

NextCentrality == CallCalculateNodeCentrality

SpecCentrality == InitAnyGraph /\ [][NextCentrality]_vars

CallGetUpstreamNodes ==
    /\ last = Idle
    /\ \E node \in Nodes, include_self \in BOOLEAN :
         /\ last' = [op |-> "get_upstream_nodes", node |-> node,
                     include_self |-> include_self,
                     out |-> get_upstream_nodes(inp, node, include_self)]
         /\ UNCHANGED inp

CallGetDownstreamNodes ==
    /\ last = Idle
    /\ \E node \in Nodes, include_self \in BOOLEAN :
         /\ last' = [op |-> "get_downstream_nodes", node |-> node,
                     include_self |-> include_self,
                     out |-> get_downstream_nodes(inp, node, include_self)]
         /\ UNCHANGED inp

CallGetIslandNodes ==
    /\ last = Idle
    /\ \E node \in Nodes :
         last' = [op |-> "get_island_nodes", node |-> node,
                  out |-> get_island_nodes(inp, node)]
    /\ UNCHANGED inp

MaxDepth == 2

\* max_depth omitted or 0..MaxDepth; filter_func omitted or a function that
\* rejects one node.
DepthArgs == {NoDepth} \cup {<<d>> : d \in 0..MaxDepth}
FilterArgs == {NoFilter} \cup {<<Nodes \ {n}>> : n \in Nodes}

CallBfsTraversal ==
    /\ last = Idle
    /\ \E start \in Nodes, direction \in Directions, max_depth \in DepthArgs,
          filter_func \in FilterArgs :
         last' = [op |-> "bfs_traversal", start |-> start, direction |-> direction,
                  max_depth |-> max_depth, filter_func |-> filter_func,
                  out |-> bfs_traversal(inp, start, direction, max_depth, filter_func)]
    /\ UNCHANGED inp

CallDfsTraversal ==
    /\ last = Idle
    /\ \E start \in Nodes, direction \in Directions, max_depth \in DepthArgs,
          filter_func \in FilterArgs :
         last' = [op |-> "dfs_traversal", start |-> start, direction |-> direction,
                  max_depth |-> max_depth, filter_func |-> filter_func,
                  out |-> dfs_traversal(inp, start, direction, max_depth, filter_func)]
    /\ UNCHANGED inp

NextTraversal ==
    \/ CallGetUpstreamNodes
    \/ CallGetDownstreamNodes
    \/ CallGetIslandNodes
    \/ CallBfsTraversal
    \/ CallDfsTraversal

SpecTraversal == InitAnyGraph /\ [][NextTraversal]_vars

Init ==
    /\ inp = EmptyGraph
    /\ last = Idle

CallConnectNodesRejected ==
    /\ last = Idle
    /\ \E source \in Nodes, target \in Nodes, i \in IndexArgs :
         LET r == connect_nodes_rejected(inp, source, target, i)
         IN  /\ inp' = r.g
             /\ last' = [op |-> "connect_nodes", source |-> source, target |-> target,
                         input_index |-> i, pre |-> inp, ret |-> r.ret,
                         raised |-> TRUE]

Next ==
    \/ CallConnectNodes
    \/ CallDisconnectNodes
    \/ CallInsertNode
    \/ CallRerouteConnections
    \/ Return

Spec == Init /\ [][Next]_vars

NextRejecting ==
    \/ CallConnectNodes
    \/ CallConnectNodesRejected
    \/ CallDisconnectNodes
    \/ Return

\* The connection calls against a host that may raise on an assignment.
SpecRejecting == Init /\ [][NextRejecting]_vars

TypeOK ==
    /\ \A n \in Nodes : DOMAIN inp[n] = Slots(n)
    /\ \A n \in Nodes : \A i \in Slots(n) : inp[n][i] \in Nodes \cup {None}

\* ------------------------------------------------- insert_node, no target
InsertedBeforeAll == last.op = "insert_node" /\ last.target = None

\* The (dependent, slot) pairs that hold node n in graph g.
HeldBy(g, n) == {<<d, k>> \in Nodes \X (0..(MaxInputs - 1)) : k \in Slots(d) /\ g[d][k] = n}

InsertPost ==
    /\ \A c \in HeldBy(last.pre, last.source) : inp[c[1]][c[2]] = last.new
    /\ input(inp, last.new, 0) = last.source
    /\ \A d \in Nodes : Feeds(last.pre, last.source, d) => ~Feeds(inp, last.source, d)

\* C1 as stated: after insert_node(source, new) with the target omitted,
\* every slot that held source holds new, new.input(0) is source, and source
\* feeds none of its former dependents.
C1_AsStated == InsertedBeforeAll => InsertPost

\* new is a node of its own to put in: not source, not already reading
\* source, and with an input slot 0 to read source through.
InsertableNew ==
    /\ last.new # last.source
    /\ ~Feeds(last.pre, last.source, last.new)
    /\ inputs(last.new) > 0

\* C1 for an insertable node: the same, for a new node that is neither source nor one of
\* source's dependents and that has at least one input slot.
C1_InsertBeforeAll == (InsertedBeforeAll /\ InsertableNew) => InsertPost

\* source fed two different dependents and new was inserted before both.
C1_Witness ==
    /\ InsertedBeforeAll
    /\ InsertableNew
    /\ Cardinality({c[1] : c \in HeldBy(last.pre, last.source)}) >= 2
    /\ last.ret

\* ----------------------------------------- reroute_connections, copying
Rerouted == last.op = "reroute_connections" /\ last.copy

RerouteInputsCopied ==
    \A i \in Slots(last.old) :
        (last.pre[last.old][i] # None /\ i < inputs(last.new))
            => inp[last.new][i] = last.pre[last.old][i]

RerouteOutputsMoved ==
    \A c \in HeldBy(last.pre, last.old) : inp[c[1]][c[2]] = last.new

\* C2 as stated: reroute_connections(old, new, True) gives new every input
\* of old that fits new's slots and puts new in every slot that held old.
C2_AsStated == Rerouted => (RerouteInputsCopied /\ RerouteOutputsMoved)

\* C2 for an unrelated new node: the same, for a new node that is not already one of old's
\* dependents.
C2_RerouteCopies ==
    (Rerouted /\ ~Feeds(last.pre, last.old, last.new))
        => (RerouteInputsCopied /\ RerouteOutputsMoved)

\* old had an input that fits new and a dependent, and new is another node.
C2_Witness ==
    /\ Rerouted
    /\ last.new # last.old
    /\ ~Feeds(last.pre, last.old, last.new)
    /\ \E i \in Slots(last.old) :
           last.pre[last.old][i] \notin {None, last.old} /\ i < inputs(last.new)
    /\ \E c \in HeldBy(last.pre, last.old) : c[1] \notin {last.old, last.new}

SuccIn(g, S, u) == {v \in S : Feeds(g, u, v)}
PredIn(g, S, u) == {v \in S : Feeds(g, v, u)}

RECURSIVE ReachFrom(_, _, _)
ReachFrom(g, S, F) ==
    LET more == F \cup UNION {SuccIn(g, S, u) : u \in F}
    IN  IF more = F THEN F ELSE ReachFrom(g, S, more)

\* The members of S reached from u by one or more edges inside S.
ReachIn(g, S, u) == ReachFrom(g, S, SuccIn(g, S, u))

Acyclic(g, S) == \A u \in S : u \notin ReachIn(g, S, u)

\* ------------------------------------------------------- topological_sort
Sorted == last.op = "topological_sort"

\* C4: for a node set whose in-set edges are acyclic, topological_sort puts
\* the source of every in-set edge strictly before its target.
C4_AsStated ==
    (Sorted /\ Acyclic(inp, Range(last.nodes))) =>
        \A u, v \in Range(last.nodes) :
            Feeds(inp, u, v) => IndexOf(u, last.out.result) < IndexOf(v, last.out.result)

\* ------------------------------------------------------------ find_cycles
CyclesSought == last.op = "find_cycles"

\* C5: find_cycles returns for every node set and every order of nodes.
C5_AsStated == CyclesSought => ~last.out.hung

\* The in-set edges form disjoint simple cycles: a member of S with an
\* in-set edge has exactly one in-set successor and one in-set predecessor.
DisjointCycles(g, S) ==
    /\ \E u \in S : SuccIn(g, S, u) # {}
    /\ \A u \in S :
           \/ SuccIn(g, S, u) = {} /\ PredIn(g, S, u) = {}
           \/ Cardinality(SuccIn(g, S, u)) = 1 /\ Cardinality(PredIn(g, S, u)) = 1

\* c lists each of its nodes once, each feeding the next and the last
\* feeding the first.
CycleInEdgeOrder(g, c) ==
    /\ c # <<>>
    /\ NoDup(c)
    /\ \A i \in DOMAIN c : Feeds(g, c[i], c[(i % Len(c)) + 1])

\* C6: when the in-set edges form disjoint simple cycles, find_cycles
\* returns one cycle per cycle of the graph, each in edge order: every
\* returned list is a cycle inside nodes, and every node on a cycle is in
\* exactly one returned list.
C6_DisjointCyclesFound ==
    (CyclesSought /\ DisjointCycles(inp, Range(last.nodes))) =>
        /\ ~last.out.hung
        /\ \A i \in DOMAIN last.out.cycles :
               /\ CycleInEdgeOrder(inp, last.out.cycles[i])
               /\ Range(last.out.cycles[i]) \subseteq Range(last.nodes)
        /\ \A u \in Range(last.nodes) :
               Cardinality({i \in DOMAIN last.out.cycles : IsIn(u, last.out.cycles[i])})
                   = IF SuccIn(inp, Range(last.nodes), u) # {} THEN 1 ELSE 0

\* Two disjoint cycles were reported, one of them a 2-cycle.
C6_Witness ==
    /\ CyclesSought
    /\ DisjointCycles(inp, Range(last.nodes))
    /\ Len(last.out.cycles) = 2
    /\ \E i \in DOMAIN last.out.cycles : Len(last.out.cycles[i]) = 2

\* A 3-cycle was reported as one 3-element cycle.
C6_ThreeCycleReached ==
    /\ CyclesSought
    /\ DisjointCycles(inp, Range(last.nodes))
    /\ \E i \in DOMAIN last.out.cycles : Len(last.out.cycles[i]) = 3

\* --------------------------------------- get_upstream / get_downstream
StreamWalked == last.op \in {"get_upstream_nodes", "get_downstream_nodes"}

\* C7: the result holds the start node exactly when include_self is set.
C7_AsStated == StreamWalked => ((last.node \in last.out) <=> last.include_self)

\* ------------------------------------------------------------------ paths
\* The forward chains inside S: lists of distinct members of S, each
\* feeding the next.
ChainsIn(g, S) ==
    {p \in SeqsOf(S) : \A i \in 1..(Len(p) - 1) : Feeds(g, p[i], p[i + 1])}

ForwardPaths(g, S, a, b) ==
    {p \in ChainsIn(g, S) : p # <<>> /\ p[1] = a /\ p[Len(p)] = b}

ShortestForwardPaths(g, S, a, b) ==
    {p \in ForwardPaths(g, S, a, b) : \A q \in ForwardPaths(g, S, a, b) : Len(p) <= Len(q)}

\* C8: _find_shortest_paths returns every forward path from start to end
\* inside nodes with the fewest nodes, and no other path.
C8_AsStated ==
    last.op = "find_shortest_paths" =>
        Range(last.out) = ShortestForwardPaths(inp, Range(last.nodes), last.start, last.end)

\* The number of nodes of the longest forward chain inside S.
MaxChain(g, S) ==
    CHOOSE k \in 0..Cardinality(S) :
        /\ \E p \in ChainsIn(g, S) : Len(p) = k
        /\ \A p \in ChainsIn(g, S) : Len(p) <= k

\* C9: for an acyclic node set, find_critical_path returns a forward chain
\* inside nodes with as many nodes as the longest one.
C9_AsStated ==
    (last.op = "find_critical_path" /\ Acyclic(inp, Range(last.nodes))) =>
        /\ last.out \in ChainsIn(inp, Range(last.nodes))
        /\ Len(last.out) = MaxChain(inp, Range(last.nodes))

\* -------------------------------------------------------- execution order
\* The number of edges of the longest chain of in-set predecessors ending
\* at n.
LongestChainTo(g, S, n) ==
    CHOOSE k \in 0..Cardinality(S) :
        /\ \E p \in ChainsIn(g, S) : p # <<>> /\ p[Len(p)] = n /\ Len(p) = k + 1
        /\ \A p \in ChainsIn(g, S) : (p # <<>> /\ p[Len(p)] = n) => Len(p) <= k + 1

\* The depth get_execution_order grouped node n under.
GroupedDepth(n) == (CHOOSE p \in Range(last.out.depths) : p[1] = n)[2]

\* C10: every node is grouped under the length of the longest chain of
\* in-set predecessors reaching it, the groups come by increasing depth, and
\* each group is in ascending (ypos, xpos) order.
C10_AsStated ==
    last.op = "get_execution_order" =>
        /\ \A n \in Range(last.nodes) :
               GroupedDepth(n) = LongestChainTo(inp, Range(last.nodes), n)
        /\ \A i, j \in DOMAIN last.out.result :
               i < j =>
                 LET a == last.out.result[i]
                     b == last.out.result[j]
                 IN  /\ GroupedDepth(a) <= GroupedDepth(b)
                     /\ GroupedDepth(a) = GroupedDepth(b)
                            => KeyLE(get_position_key(last.pos, a),
                                     get_position_key(last.pos, b))

\* ----------------------------------------------------------- connect_nodes
Connected == last.op = "connect_nodes"

\* The (node, slot) pairs whose occupant differs between graphs g and h.
ChangedSlots(g, h) == {c \in Nodes \X (0..(MaxInputs - 1)) : c[2] \in Slots(c[1]) /\ g[c[1]][c[2]] # h[c[1]][c[2]]}

\* C11: connect_nodes with an index outside 0 <= input_index <
\* target.inputs(), negative ones included, returns False and changes no
\* input slot.
C11_AsStated ==
    (Connected /\ last.input_index \notin Slots(last.target)) =>
        (~last.ret /\ inp = last.pre)

\* The part of C11 the one check "input_index >= target.inputs()" covers.
C11_TooLargeRefused ==
    (Connected /\ last.input_index >= inputs(last.target)) =>
        (~last.ret /\ inp = last.pre)

\* C12: when connect_nodes(source, target, i) returns True, slot i of target
\* holds source and no other slot of any node has changed.
C12_AsStated ==
    (Connected /\ last.ret) =>
        /\ input(inp, last.target, last.input_index) = last.source
        /\ ChangedSlots(last.pre, inp) \subseteq {<<last.target, last.input_index>>}

\* The same for an index that names a slot of target.
C12_InRange ==
    (Connected /\ last.ret /\ last.input_index \in Slots(last.target)) =>
        /\ input(inp, last.target, last.input_index) = last.source
        /\ ChangedSlots(last.pre, inp) \subseteq {<<last.target, last.input_index>>}

\* -------------------------------------------------------- disconnect_nodes
Disconnected == last.op = "disconnect_nodes"

\* The slots the call is to clear: slot i of target if it holds source, or
\* with the index omitted every slot of target that holds source.
ToClear ==
    IF last.input_index # NoIndex
    THEN {c \in {<<last.target, last.input_index[1]>>} :
              c[2] \in Slots(c[1]) /\ last.pre[c[1]][c[2]] = last.source}
    ELSE {<<last.target, k>> : k \in {k \in Slots(last.target) :
                                          last.pre[last.target][k] = last.source}}

\* C13: disconnect_nodes empties exactly the slots of target that hold
\* source (the one named by the index, or all of them when it is omitted),
\* changes nothing else, and returns True exactly when it emptied a slot.
C13_DisconnectClears ==
    Disconnected =>
        /\ ChangedSlots(last.pre, inp) = ToClear
        /\ \A c \in ToClear : inp[c[1]][c[2]] = None
        /\ last.ret <=> (ToClear # {})

\* With the index omitted, two slots of target held source and were cleared.
C13_Witness ==
    /\ Disconnected
    /\ last.input_index = NoIndex
    /\ Cardinality(ToClear) = 2
    /\ last.ret
    /\ \A k \in Slots(last.target) : inp[last.target][k] = None

\* With an index given, the slot held another node and the call returned
\* False.
C13_OtherOccupantKept ==
    /\ Disconnected
    /\ last.input_index # NoIndex
    /\ input(last.pre, last.target, last.input_index[1]) \notin {None, last.source}
    /\ ~last.ret

\* ------------------------------------------ insert_node, between two nodes
\* insert_node was called with a target whose slot input_index held source.
InsertedBetween ==
    /\ last.op = "insert_node"
    /\ last.target # None
    /\ input(last.pre, last.target, last.input_index) = last.source

InsertedBetweenPost ==
    /\ input(inp, last.new, 0) = last.source
    /\ input(inp, last.target, last.input_index) = last.new
    /\ input(inp, last.target, last.input_index) # last.source
    /\ last.ret

\* C14 as stated: insert_node(source, new, target, i), with source in slot i
\* of target, ends with new.input(0) = source and target.input(i) = new,
\* source no longer in that slot, and returns True.
C14_AsStated == InsertedBetween => InsertedBetweenPost

\* C14 for a node of its own: the same, when new is neither source nor
\* target and has an input slot 0.
C14_InsertBetween ==
    (InsertedBetween /\ last.new \notin {last.source, last.target} /\ inputs(last.new) > 0)
        => InsertedBetweenPost

\* new was put between source and slot 1 of target, and read another node
\* through its slot 0 before.
C14_Witness ==
    /\ InsertedBetween
    /\ last.new \notin {last.source, last.target}
    /\ last.input_index = 1
    /\ input(last.pre, last.new, 0) \notin {None, last.source}
    /\ last.ret

C16_EveryNodeOnce ==
    Sorted =>
        /\ NoDup(last.out.result)
        /\ Range(last.out.result) = Range(last.nodes)
        /\ last.out.result =
               last.out.sorted \o SelectSeq(last.nodes, LAMBDA n : ~IsIn(n, last.out.sorted))

\* Some nodes were sorted and two or more were left over, listed in nodes
\* in descending order.
C16_Witness ==
    /\ Sorted
    /\ last.out.cycle_warning
    /\ Len(last.out.sorted) >= 1
    /\ Len(last.out.result) >= Len(last.out.sorted) + 2
    /\ last.out.result[Len(last.out.result)] < last.out.result[Len(last.out.result) - 1]

\* C17: the cycle warning is given exactly when the edges between members
\* of nodes contain a directed cycle.
C17_AsStated ==
    Sorted => (last.out.cycle_warning <=> ~Acyclic(inp, Range(last.nodes)))

\* The half of C17 that holds: a cyclic node set is always warned about.
C17_CyclicWarned ==
    (Sorted /\ ~Acyclic(inp, Range(last.nodes))) => last.out.cycle_warning

\* ---------------------------------------------------------- find_all_paths
\* p lists distinct nodes from a to b, each feeding the next.
SimpleForwardPath(g, p, a, b) ==
    /\ p # <<>>
    /\ NoDup(p)
    /\ p[1] = a
    /\ p[Len(p)] = b
    /\ \A i \in 1..(Len(p) - 1) : Feeds(g, p[i], p[i + 1])

\* C18: find_all_paths(start, end, max_paths, max_length) returns at most
\* max_paths paths, each a simple forward path from start to end of at most
\* max_length nodes.
C18_PathsBounded ==
    last.op = "find_all_paths" =>
        /\ Len(last.out) <= last.max_paths
        /\ \A i \in DOMAIN last.out :
               /\ SimpleForwardPath(inp, last.out[i], last.start, last.end)
               /\ Len(last.out[i]) <= last.max_length

\* The graph has more than max_paths = 2 paths from start to end, and two
\* were returned.
C18_Witness ==
    /\ last.op = "find_all_paths"
    /\ last.max_paths = 2
    /\ last.max_length = MaxNodes
    /\ Len(last.out) = 2
    /\ Cardinality(ForwardPaths(inp, Nodes, last.start, last.end)) > 2

\* On a graph with a directed cycle through start, one of several paths was
\* returned for max_paths = 1.
C18_CyclicReached ==
    /\ last.op = "find_all_paths"
    /\ last.max_paths = 1
    /\ Len(last.out) = 1
    /\ Cardinality(ForwardPaths(inp, Nodes, last.start, last.end)) > 1
    /\ last.start \in ReachIn(inp, Nodes, last.start)

\* ---------------------------------------------------- find_connection_path
\* u and v are joined by an edge in one direction or the other.
Joined(g, u, v) == Feeds(g, u, v) \/ Feeds(g, v, u)

\* The paths from a to b over edges taken in either direction, with at most
\* limit nodes.
JoinedPaths(g, a, b, limit) ==
    {p \in NodeLists :
        /\ p # <<>>
        /\ Len(p) <= limit
        /\ p[1] = a
        /\ p[Len(p)] = b
        /\ \A i \in 1..(Len(p) - 1) : Joined(g, p[i], p[i + 1])}

\* C19: find_connection_path returns a path from start to end over edges in
\* either direction with the fewest nodes there can be, whenever one of at
\* most max_depth nodes exists, and None otherwise.
C19_ShortestJoinedPath ==
    last.op = "find_connection_path" =>
        LET within == JoinedPaths(inp, last.start, last.end, last.max_depth)
        IN  IF within = {}
            THEN last.out = NoPath
            ELSE /\ last.out \in within
                 /\ \A q \in within : Len(last.out) <= Len(q)

\* A path of exactly max_depth = 3 nodes was returned that takes one edge
\* forwards and another backwards, where longer paths exist too.
C19_Witness ==
    /\ last.op = "find_connection_path"
    /\ last.max_depth = 3
    /\ Len(last.out) = 3
    /\ \E i, j \in 1..2 :
           /\ ~Feeds(inp, last.out[i], last.out[i + 1])
           /\ ~Feeds(inp, last.out[j + 1], last.out[j])
    /\ \E q \in JoinedPaths(inp, last.start, last.end, MaxNodes) : Len(q) = 4

\* No path of at most max_depth nodes exists although start and end are
\* joined by a longer one, and None was returned.
C19_TooFarReached ==
    /\ last.op = "find_connection_path"
    /\ last.out = NoPath
    /\ last.max_depth >= 2
    /\ JoinedPaths(inp, last.start, last.end, MaxNodes) # {}

\* ------------------------------------------------- traversals, duplicates
\* C20: bfs_traversal and dfs_traversal return every node at most once, for
\* every start, direction, max_depth and filter; get_upstream_nodes,
\* get_downstream_nodes and get_island_nodes return list(s) of a set s,
\* which lists each member of s once.
C20_NoDuplicates ==
    /\ last.op \in {"bfs_traversal", "dfs_traversal"} => NoDup(last.out)
    /\ last.op \in {"get_upstream_nodes", "get_downstream_nodes", "get_island_nodes"} =>
           /\ NoDup(AscendingList(last.out))
           /\ Range(AscendingList(last.out)) = last.out

\* A breadth-first walk in both directions from a node on a directed cycle
\* returned every node of the graph.
C20_Witness ==
    /\ last.op = "bfs_traversal"
    /\ last.direction = "both"
    /\ last.max_depth = NoDepth
    /\ last.filter_func = NoFilter
    /\ last.start \in ReachIn(inp, Nodes, last.start)
    /\ Len(last.out) = MaxNodes

\* A depth-first walk with a depth limit and a filter returned three nodes.
C20_DfsReached ==
    /\ last.op = "dfs_traversal"
    /\ last.max_depth = <<2>>
    /\ last.filter_func # NoFilter
    /\ Len(last.out) = 3

\* ------------------------------------------------------------- components
RECURSIVE JoinedFrom(_, _, _)
\* The members of S joined to a member of F by edges between members of S,
\* taken in either direction (F itself included).
JoinedFrom(g, S, F) ==
    LET more == F \cup {v \in S : \E u \in F : Joined(g, u, v)}
    IN  IF more = F THEN F ELSE JoinedFrom(g, S, more)

\* The indices of the components that hold node n.
ComponentsOf(comps, n) == {i \in DOMAIN comps : IsIn(n, comps[i])}

\* C21: get_graph_components returns a partition of nodes, and two nodes
\* share a component exactly when an undirected path inside nodes joins
\* them.
C21_ComponentsPartition ==
    last.op = "get_graph_components" =>
        LET S == Range(last.nodes)
        IN  /\ \A i \in DOMAIN last.out :
                   /\ last.out[i] # <<>>
                   /\ NoDup(last.out[i])
                   /\ Range(last.out[i]) \subseteq S
            /\ \A n \in S : Cardinality(ComponentsOf(last.out, n)) = 1
            /\ \A u, v \in S :
                   (ComponentsOf(last.out, u) = ComponentsOf(last.out, v))
                       <=> v \in JoinedFrom(inp, S, {u})

\* Two nodes of nodes are joined only through a node outside nodes, and
\* were put in different components.
C21_Witness ==
    /\ last.op = "get_graph_components"
    /\ Len(last.out) >= 2
    /\ \E i \in DOMAIN last.out : Len(last.out[i]) >= 2
    /\ \E u, v \in Range(last.nodes) :
           /\ ComponentsOf(last.out, u) # ComponentsOf(last.out, v)
           /\ v \in JoinedFrom(inp, Nodes, {u})

\* ----------------------------------------------------------------- islands
\* C22: get_island_nodes(N) returns exactly the nodes joined to N by edges
\* taken in either direction, N included, so that M is in the island of N
\* exactly when N is in the island of M.
C22_IslandIsComponent ==
    last.op = "get_island_nodes" =>
        /\ last.out = JoinedFrom(inp, Nodes, {last.node})
        /\ \A m \in Nodes : (m \in last.out) <=> (last.node \in get_island_nodes(inp, m))

\* The island of a node with an input and a dependent holds three of the
\* four nodes, one of them reached only against the direction of an edge.
C22_Witness ==
    /\ last.op = "get_island_nodes"
    /\ Cardinality(last.out) = 3
    /\ input_nodes(inp, last.node, 0) # <<>>
    /\ dependent(inp, last.node) # <<>>
    /\ \E m \in last.out :
           /\ m \notin get_upstream_nodes(inp, last.node, TRUE)
           /\ m \notin get_downstream_nodes(inp, last.node, TRUE)

\* -------------------------------------------------------------- centrality
\* The shortest of the chains that lead from a to b.
ShortestAmong(chains, a, b) ==
    LET fromto == {p \in chains : p # <<>> /\ p[1] = a /\ p[Len(p)] = b}
    IN  {p \in fromto : \A q \in fromto : Len(p) <= Len(q)}

\* In units of 1/Unit: the part of the shortest forward paths from a to b
\* that have n as an interior node.
ShareThrough(chains, a, b, n) ==
    LET sp == ShortestAmong(chains, a, b)
    IN  IF sp = {} THEN 0
        ELSE (Unit * Cardinality({p \in sp : \E k \in 2..(Len(p) - 1) : p[k] = n}))
                 \div Cardinality(sp)

RECURSIVE SumShares(_, _, _)
SumShares(chains, pairs, n) ==
    IF pairs = {} THEN 0
    ELSE LET pr == CHOOSE x \in pairs : TRUE
         IN  ShareThrough(chains, pr[1], pr[2], n) + SumShares(chains, pairs \ {pr}, n)

\* The pairs the sum runs over: a before b in the list.
ListPairs(nodes) ==
    {<<nodes[i], nodes[j]>> : i \in DOMAIN nodes, j \in DOMAIN nodes} \cap
    {pr \in Nodes \X Nodes :
        \E i \in DOMAIN nodes, j \in DOMAIN nodes : i < j /\ nodes[i] = pr[1] /\ nodes[j] = pr[2]}

\* C23: the score of every node is its sum of shares over the node pairs
\* divided by the largest such sum, all scores are 0 when every sum is 0,
\* and every score is between 0 and 1.  (x / y = u / v is x * v = u * y.)
C23_AsStated ==
    last.op = "calculate_node_centrality" =>
        LET S == Range(last.nodes)
            chains == ChainsIn(inp, S)
            pairs == ListPairs(last.nodes)
            sums == {<<n, SumShares(chains, pairs, n)>> : n \in S}
            largest == IF S = {} THEN 0
                       ELSE CHOOSE m \in {sm[2] : sm \in sums} : \A sm \in sums : sm[2] <= m
        IN  /\ \A n \in S : 0 <= last.out.score[n] /\ last.out.score[n] <= last.out.over
            /\ largest = 0 => \A n \in S : last.out.score[n] = 0
            /\ largest > 0 =>
                   \A sm \in sums : last.out.score[sm[1]] * largest = sm[2] * last.out.over

\* The three parts of C23 that do not depend on how many shortest paths
\* are found: the scores are between 0 and 1, and some score is 1 unless
\* all are 0.
C23_ScoresNormalised ==
    last.op = "calculate_node_centrality" =>
        LET S == Range(last.nodes)
        IN  /\ \A n \in S : 0 <= last.out.score[n] /\ last.out.score[n] <= last.out.over
            /\ (\E n \in S : last.out.score[n] > 0)
                   => \E n \in S : last.out.score[n] = last.out.over

\* ------------------------------------------ execution order, dependencies
\* C24: for an acyclic node set, get_execution_order puts the source of
\* every in-set edge before its target, wherever the nodes are placed.
C24_AsStated ==
    (last.op = "get_execution_order" /\ Acyclic(inp, Range(last.nodes))) =>
        \A u, v \in Range(last.nodes) :
            Feeds(inp, u, v) => IndexOf(u, last.out.result) < IndexOf(v, last.out.result)

\* ------------------------------------------------- find_cycles, soundness
\* C25: every cycle find_cycles returns is a directed cycle inside nodes
\* (members of nodes, none repeated, each feeding the next and the last
\* feeding the first), and for an acyclic node set it returns the empty
\* list.
C25_CyclesGenuine ==
    CyclesSought =>
        /\ \A i \in DOMAIN last.out.cycles :
               /\ Range(last.out.cycles[i]) \subseteq Range(last.nodes)
               /\ CycleInEdgeOrder(inp, last.out.cycles[i])
        /\ Acyclic(inp, Range(last.nodes)) =>
               (~last.out.hung /\ last.out.cycles = <<>>)

\* A 3-cycle was returned from a node set whose edges are more than
\* disjoint cycles.
C25_Witness ==
    /\ CyclesSought
    /\ ~last.out.hung
    /\ ~DisjointCycles(inp, Range(last.nodes))
    /\ \E i \in DOMAIN last.out.cycles : Len(last.out.cycles[i]) = 3

\* --------------------------------------------------- insert_node, failure
\* C26: whenever insert_node returns False, no input slot of any node
\* differs from what it held before the call.
C26_AsStated == (last.op = "insert_node" /\ ~last.ret) => inp = last.pre

\* The form of C26 with a target given: a False return leaves the graph as
\* it was.
C26_BetweenUnchanged ==
    (last.op = "insert_node" /\ last.target # None /\ ~last.ret) => inp = last.pre

\* -------------------------------------------------- connect_nodes, failure
\* C27: whenever connect_nodes(source, target, i) returns False, every input
\* slot of target holds the same node as before the call, also when the slot
\* was occupied and the host raises on the new assignment.
C27_AsStated ==
    (last.op = "connect_nodes" /\ ~last.ret) =>
        inp[last.target] = last.pre[last.target]

\* The part of C27 without a raising host: a False return for an index the
\* target does not have leaves the target as it was.
C27_RefusedIndexUnchanged ==
    (last.op = "connect_nodes" /\ ~last.ret /\ "raised" \notin DOMAIN last) =>
        inp[last.target] = last.pre[last.target]

\* ------------------------------------------------ bfs_traversal, filtering
\* The nodes one step from n in the chosen direction.
StepFrom(g, n, direction) ==
    (IF direction \in {"forward", "both"}
     THEN {m \in Nodes : \E i \in Slots(m) : g[m][i] = n} ELSE {})
    \cup (IF direction \in {"backward", "both"}
          THEN {g[n][i] : i \in Slots(n)} \ {None} ELSE {})

RECURSIVE PassingFrom(_, _, _, _)
\* The nodes of F reachable from the nodes of seen by steps that stay in F.
PassingFrom(g, direction, F, seen) ==
    LET more == {m \in F \ seen : \E n \in seen : m \in StepFrom(g, n, direction)}
    IN  IF more = {} THEN seen ELSE PassingFrom(g, direction, F, seen \cup more)

\* The nodes reachable from start through a chain of nodes that all pass.
PassingReach(g, start, direction, F) ==
    IF start \in F THEN PassingFrom(g, direction, F, {start}) ELSE {}

FilteredBfs ==
    /\ last.op = "bfs_traversal"
    /\ last.filter_func # NoFilter
    /\ last.max_depth = NoDepth

\* C28: bfs_traversal with a filter (and no depth limit) returns exactly the
\* nodes reachable from start, along the chosen direction, through a chain of
\* nodes that all pass the filter; a node failing the filter is neither
\* returned nor expanded.
C28_FilteredReach ==
    FilteredBfs =>
        Range(last.out) = PassingReach(inp, last.start, last.direction,
                                       last.filter_func[1])

\* A call where a failing node lies between start and a passing node that is
\* reachable only through it, and something beyond start is returned.
C28_Witness ==
    /\ FilteredBfs
    /\ Len(last.out) >= 2
    /\ \E x \in Nodes \ last.filter_func[1] :
         /\ x \in StepFrom(inp, last.start, last.direction)
         /\ \E y \in StepFrom(inp, x, last.direction) :
              /\ y \in last.filter_func[1]
              /\ y \notin Range(last.out)

\* ---------------------------------------------- bfs_traversal, depth limit
RECURSIVE WithinSteps(_, _, _, _)
\* The nodes at most d steps from the nodes of seen.
WithinSteps(g, direction, d, seen) ==
    IF d = 0 THEN seen
    ELSE WithinSteps(g, direction, d - 1,
                     seen \cup UNION {StepFrom(g, n, direction) : n \in seen})

LimitedBfs ==
    /\ last.op = "bfs_traversal"
    /\ last.filter_func = NoFilter
    /\ last.max_depth # NoDepth

\* C29: bfs_traversal with max_depth = d and no filter returns exactly the
\* nodes whose shortest distance from start in the chosen direction is at
\* most d, for every integer d >= 0; max_depth = 0 returns only start.
C29_AsStated ==
    LimitedBfs =>
        Range(last.out) = WithinSteps(inp, last.direction, last.max_depth[1],
                                      {last.start})

\* The part of C29 for d >= 1.
C29_PositiveDepth ==
    (LimitedBfs /\ last.max_depth[1] >= 1) =>
        Range(last.out) = WithinSteps(inp, last.direction, last.max_depth[1],
                                      {last.start})

\* ------------------------------------------------- dfs_traversal and bfs
\* C30: for the same start node, direction, filter and max_depth,
\* dfs_traversal and bfs_traversal return the same set of nodes.
C30_AsStated ==
    last.op = "dfs_traversal" =>
        Range(last.out) = Range(bfs_traversal(inp, last.start, last.direction,
                                              last.max_depth, last.filter_func))

\* The part of C30 without a depth limit and without a filter.
C30_Unlimited ==
    (last.op = "dfs_traversal" /\ last.max_depth = NoDepth
        /\ last.filter_func = NoFilter) =>
        Range(last.out) = Range(bfs_traversal(inp, last.start, last.direction,
                                              NoDepth, NoFilter))
====
